---- MODULE Spec2Model ----
(***************************************************************************)
(* A model of cheflib: the search/listing paginator of Chef, the lazy      *)
(* Entity cache with its save / assignment / delete operations, and the    *)
(* by-name, create and membership operations built on them.                *)
(***************************************************************************)
EXTENDS Integers, Sequences, FiniteSets, TLC

(* ------------------------------ bounds --------------------------------- *)
\* largest `total` the search server reports
MaxTotal == 6
\* largest page size (max_row_count) a search is issued with
MaxRows == 2
\* largest value of a document field
MaxVal == 2

(* ------------------------- program constants --------------------------- *)
\* Chef.__init__: self._max_http_workers = 4
MaxHttpWorkers == 4
\* configuration.MAX_ROW_COUNT
MAX_ROW_COUNT == 1000

(* ------------------------------ state ---------------------------------- *)
VARIABLES
    \* --- Chef._get_paginated_response, one iteration of the generator ---
    ppc,          \* position: "idle", "submit", "collect", "done"
    query,        \* the query argument ("none" when absent)
    keys,         \* TRUE when a non-empty field projection map was passed
    total,        \* `total` of the first response
    params,       \* the params dict shared by the submission loop
    futures,      \* the futures list, in submission order
    requests,     \* every HTTP request sent by the iteration, in send order
    yielded,      \* every record the generator yielded, in order
    first,        \* how the first request ended ("none" before it)
    raised        \* the exception the generator let through to its caller

pagerVars == <<ppc, query, keys, total, params, futures, requests, yielded, first, raised>>

VARIABLES
    \* --- one Entity and the server object behind its URL ---
    e_chef,       \* Entity._chef: "chef" (a Chef) or "session" (a ChefSession)
    e_data,       \* Entity._data: the cached document, NoDoc for None
    e_origin,     \* where the cached document came from: "none", "server", "local"
    srv,          \* the server: whether the object exists, and its document
    last,         \* the last operation on the entity and what it did
    hist          \* what happened to the entity since it was constructed

entityVars == <<e_chef, e_data, e_origin, srv, last, hist>>

VARIABLES
    \* --- the by-name, create and membership operations of Chef ---
    coll,         \* the server: one collection, its kind and the names it holds
    call,         \* the last operation called and what it did
    search_indexes \* Chef._search_indexes: the index names the server listed

chefVars == <<coll, call, search_indexes>>

VARIABLES
    \* --- calls of _encrypt_item and _decrypt_item ---
    rng,          \* how many nonces the random generator has handed out
    c_log,        \* key and iv of every field encryption so far, in order
    c_prev,       \* the _encrypt_item call before the latest one
    c_enc,        \* the latest _encrypt_item call
    c_last        \* the last call of either function and what it did

cipherVars == <<rng, c_log, c_prev, c_enc, c_last>>

VARIABLES
    \* --- one DataBagItem or Cookbook and the server object behind its URL ---
    k_kind,       \* the entity's class: "databagitem" or "cookbook"
    k_secret,     \* DataBagItem._secret ("none" for None)
    k_data,       \* Entity._data: the cached document, NoDoc for None
    k_srv,        \* the document the server holds, and how it was made
    k_last        \* the last operation on the entity and what it did

kindVars == <<k_kind, k_secret, k_data, k_srv, k_last>>

vars == <<pagerVars, entityVars, chefVars, cipherVars, kindVars>>

\* What the operations of each part leave alone.
notPager == <<entityVars, chefVars, cipherVars, kindVars>>

notEntity == <<pagerVars, chefVars, cipherVars, kindVars>>

notChef == <<pagerVars, entityVars, cipherVars, kindVars>>

notCipher == <<pagerVars, entityVars, chefVars, kindVars>>

\* The operations on a DataBagItem or Cookbook use the random generator.
notKind == <<pagerVars, entityVars, chefVars, c_log, c_prev, c_enc, c_last>>

(* --------------------------- pure helpers ------------------------------ *)
Min(a, b) == IF a < b THEN a ELSE b

\* The search server: record k of the result set (0-based), served in pages.
\* The rows of the response to a request with the given start and rows.
PageRows(start, rows, tot) ==
    [i \in 1..(IF start < tot THEN Min(rows, tot - start) ELSE 0) |-> start + i - 1]

\* range(first, stop, step)
RECURSIVE RangeFrom(_, _, _)
RangeFrom(from, stop, step) ==
    IF from >= stop THEN <<>> ELSE <<from>> \o RangeFrom(from + step, stop, step)

\* `if total > row_count:` the first page is not the whole result.
NeedsFanOut(tot, row_count) == tot > row_count

\* A fan-out that walks every page of the result, the first one included.
AllPageStarts(row_count, tot) == RangeFrom(0, tot, row_count)

\* Lines 123-126: the start offsets the fan-out submits, in order:
\* range(row_count, total, row_count) when total > row_count, else none.
FanOutStarts(row_count, tot) ==
    IF NeedsFanOut(tot, row_count) THEN RangeFrom(row_count, tot, row_count) ELSE <<>>

\* A future that holds the params dict itself reads it when its request is sent.
ParamsShared(p) == [shared |-> TRUE, val |-> p]

\* executor.submit(http_method, url, params=params.copy(), ...): the future
\* owns a snapshot of params taken at submission.
ParamsCopy(p) == [shared |-> FALSE, val |-> p]

\* The params a future's request is sent with.
SentParams(f) == IF f.params.shared THEN params ELSE f.params.val

\* http_method = getattr(self.session, 'post' if keys else 'get')
HttpMethod(k) == IF k THEN "post" ELSE "get"

\* _request_url: the search URL when params is non-empty, else the listing URL.
RequestUrl(q) == IF q # "none" THEN "search" ELSE "listing"

\* http_method(url, params=params, json=keys)
Request(k, q, p) == [method |-> HttpMethod(k), url |-> RequestUrl(q), json |-> k,
                     q |-> p.q, rows |-> p.rows, start |-> p.start]

\* How a request can end: a successful response; a non-success response (its
\* body an error object without a 'rows' member, or no JSON at all); an
\* exception raised by the request.
PageOutcomes == {"ok", "bad_status", "exc"}

\* One completed future whose exception is not caught.
FutureResultUncaught(f) ==
    IF f.state = "ok"
    THEN [rows |-> PageRows(f.sent.start, f.sent.rows, total), raised |-> "none"]
    ELSE [rows |-> <<>>, raised |-> "Exception"]

\* Lines 130-137: what one completed future contributes.  future.result()
\* re-raises a request exception ("exc"); for "bad_status" response.json()
\* raises on a non-JSON body and `yield from None` raises on a body without
\* 'rows'; `except Exception` catches all of them.
FutureResult(f) ==
    IF f.state = "ok"
    THEN [rows |-> PageRows(f.sent.start, f.sent.rows, total), raised |-> "none"]
    ELSE [rows |-> <<>>, raised |-> "none"]

\* A first request whose non-success response is raised to the caller, as
\* the data getter of an Entity does.
FirstFailureRaised(outcome) ==
    IF outcome = "exc" THEN "RequestException"
    ELSE IF outcome = "bad_status" THEN "InvalidObject" ELSE "none"

\* Lines 113-117: what the first request lets through to the caller.  A
\* request that raises is not caught; `if not response.ok: return False`
\* ends the generator without an exception.
FirstFailure(outcome) == IF outcome = "exc" THEN "RequestException" ELSE "none"

(* ------------------------------ Init ----------------------------------- *)
NoParams == [q |-> "none", rows |-> 0, start |-> 0]

PagerInit ==
    /\ ppc = "idle"
    /\ query = "none"
    /\ keys = FALSE
    /\ total = 0
    /\ params = NoParams
    /\ futures = <<>>
    /\ requests = <<>>
    /\ yielded = <<>>
    /\ first = "none"
    /\ raised = "none"

(* --------------------- Chef._get_paginated_response -------------------- *)
\* Lines 109-123: the first request of a search, and the first page.
\* A request that raises is not caught here: the exception reaches the caller.
FirstRequest(q, k, max_row_count, tot, outcome) ==
    /\ ppc = "idle"
    /\ LET p == [q |-> q, rows |-> max_row_count, start |-> 0]
           row_count == p.rows
       IN /\ query' = q
          /\ keys' = k
          /\ params' = p
          /\ requests' = <<Request(k, q, p)>>
          /\ first' = outcome
          /\ futures' = <<>>
          /\ IF outcome # "ok"
             THEN /\ total' = 0
                  /\ yielded' = <<>>
                  /\ ppc' = "done"
                  /\ raised' = FirstFailure(outcome)
             ELSE /\ total' = tot
                  /\ yielded' = PageRows(0, row_count, tot)
                  /\ ppc' = IF FanOutStarts(row_count, tot) # <<>> THEN "submit" ELSE "done"
                  /\ raised' = "none"
    /\ UNCHANGED notPager

Search ==
    \E k \in BOOLEAN, r \in 1..MaxRows, t \in 0..MaxTotal, o \in PageOutcomes :
        FirstRequest("name:web", k, r, t, o)

\* Lines 109-123 without a query: params = {}, a GET of the collection, and
\* the n entries of the server's mapping yielded from response_data.items();
\* total is 0 and nothing is fanned out.  (ListingResult has the mappings
\* with an entry named 'total' or 'rows'.)
ListRequest(n, outcome) ==
    /\ ppc = "idle"
    /\ query' = "none"
    /\ keys' = FALSE
    /\ params' = NoParams
    /\ requests' = <<Request(FALSE, "none", NoParams)>>
    /\ first' = outcome
    /\ futures' = <<>>
    /\ total' = 0
    /\ yielded' = IF outcome = "ok" THEN PageRows(0, n, n) ELSE <<>>
    /\ ppc' = "done"
    /\ raised' = FirstFailure(outcome)
    /\ UNCHANGED notPager

\* Lines 126-128: one turn of the submission loop.
SubmitPage ==
    /\ ppc = "submit"
    /\ LET starts == FanOutStarts(params.rows, total)
           n == Len(futures) + 1
           p == [params EXCEPT !.start = starts[n]]
       IN /\ n <= Len(starts)
          /\ params' = p
          /\ futures' = Append(futures, [params |-> ParamsCopy(p), state |-> "queued",
                                         sent |-> NoParams, collected |-> FALSE])
          /\ ppc' = IF n = Len(starts) THEN "collect" ELSE "submit"
    /\ UNCHANGED <<query, keys, total, requests, yielded, first, raised>>
    /\ UNCHANGED notPager

\* A pool that does not count its busy threads.
NoneRunning == {}

\* A pool whose threads never become free.
AllBusy == 1..MaxHttpWorkers

\* The futures whose call a pool thread is executing.
Running == {i \in 1..Len(futures) : futures[i].state = "running"}

\* A pool thread takes the oldest queued work item and sends its request;
\* the pool has max_workers threads.
WorkerStart(i) ==
    /\ ppc \in {"submit", "collect"}
    /\ i \in 1..Len(futures)
    /\ futures[i].state = "queued"
    /\ \A j \in 1..(i - 1) : futures[j].state # "queued"
    /\ Cardinality(Running) < MaxHttpWorkers
    /\ LET p == SentParams(futures[i])
       IN /\ futures' = [futures EXCEPT ![i].state = "running", ![i].sent = p]
          /\ requests' = Append(requests, Request(keys, query, p))
    /\ UNCHANGED <<ppc, query, keys, total, params, yielded, first, raised>>
    /\ UNCHANGED notPager

\* The request of a running future returns or raises.
WorkerFinish(i, outcome) ==
    /\ ppc \in {"submit", "collect"}
    /\ i \in 1..Len(futures)
    /\ futures[i].state = "running"
    /\ futures' = [futures EXCEPT ![i].state = outcome]
    /\ UNCHANGED <<ppc, query, keys, total, params, requests, yielded, first, raised>>
    /\ UNCHANGED notPager

\* Lines 129-137: as_completed hands over one finished future.  An exception
\* that left the loop body would end the generator.
Collect(i) ==
    /\ ppc = "collect"
    /\ i \in 1..Len(futures)
    /\ futures[i].state \in PageOutcomes
    /\ ~futures[i].collected
    /\ LET r == FutureResult(futures[i])
       IN /\ yielded' = yielded \o r.rows
          /\ raised' = r.raised
          /\ futures' = [futures EXCEPT ![i].collected = TRUE]
          /\ ppc' = IF r.raised # "none"
                       \/ \A j \in 1..Len(futures) : j = i \/ futures[j].collected
                    THEN "done" ELSE "collect"
    /\ UNCHANGED <<query, keys, total, params, requests, first>>
    /\ UNCHANGED notPager

\* The caller drops the exhausted generator; a new iteration may begin.
Reset ==
    /\ ppc = "done"
    /\ ppc' = "idle"
    /\ query' = "none"
    /\ keys' = FALSE
    /\ total' = 0
    /\ params' = NoParams
    /\ futures' = <<>>
    /\ requests' = <<>>
    /\ yielded' = <<>>
    /\ first' = "none"
    /\ raised' = "none"
    /\ UNCHANGED notPager

PagerNext ==
    \/ Search
    \/ \E n \in 0..MaxRows, o \in PageOutcomes : ListRequest(n, o)
    \/ SubmitPage
    \/ \E i \in 1..MaxTotal : WorkerStart(i)
    \/ \E i \in 1..MaxTotal, o \in PageOutcomes : WorkerFinish(i, o)
    \/ \E i \in 1..MaxTotal : Collect(i)
    \/ Reset

(* ------------------------------- Entity -------------------------------- *)
\* Entity._name of the modelled entity
Name == "web"

Vals == 1..MaxVal

\* Entity._data is None
NoDoc == [none |-> TRUE]

\* The documents the server can hold for the entity.
ServerDocs ==
    {[id |-> Name, a |-> x] : x \in Vals}
        \cup {[id |-> Name, a |-> x, b |-> y] : x \in Vals, y \in Vals}

\* The partial field maps a save is called with.
Updates == {[a |-> x] : x \in Vals} \cup {[b |-> x] : x \in Vals}

\* The whole documents a caller assigns to data.
AssignedDocs == {[a |-> x] : x \in Vals} \cup {[id |-> "other", b |-> x] : x \in Vals}

\* response.text of a non-success response
ServerText == "server error text"

\* dict.update: the members of u replace or extend those of d.
Overlay(d, u) ==
    [k \in DOMAIN d \cup DOMAIN u |-> IF k \in DOMAIN u THEN u[k] ELSE d[k]]

\* Entity._pre_save_data: the identity for the base kinds.
PreSaveData(data) == data

\* A payload that is the cached document itself: `payload.update(data)`
\* then writes into the cache.
CachedAfterUpdateAliased(current, upd) == Overlay(current, upd)

\* _save_data, lines 79-80: payload is a deepcopy of self.data, so
\* `payload.update(data)` leaves the cached document as it was.
CachedAfterUpdate(current, upd) == current

\* dict.update reads its argument and writes only its receiver: the caller's
\* mapping after `payload.update(data)`.
UpdateAfterSave(current, upd) == upd

\* A save that never drops the cached document.
CacheAfterPutKeep(current, ok) == current

\* A save that drops the cached document before it looks at the response.
CacheAfterPutAlways(current, ok) == NoDoc

\* _save_data, lines 83-87: `raise` on a non-success response leaves _data
\* alone; otherwise self._data = None.
CacheAfterPut(current, ok) == IF ok THEN NoDoc ELSE current

NoOp == [op |-> "none", raised |-> "none", text |-> "none",
         gets |-> 0, puts |-> 0, dels |-> 0, putok |-> FALSE, delok |-> FALSE,
         read |-> FALSE, doc |-> NoDoc, origin |-> "none", ret |-> "none",
         before |-> NoDoc, got |-> NoDoc, body |-> NoDoc,
         cur |-> NoDoc, upd |-> NoDoc, updAfter |-> NoDoc,
         fetchedBefore |-> FALSE, readBefore |-> FALSE, afterWrite |-> FALSE]

\* fetched:  a GET succeeded since construction or the last successful write
\* read:     a data read took place since construction or the last successful write
\* assigned: a document was assigned to data
\* plain:    only data reads and successful partial-update saves took place
\* wrote:    the last operation that touched data was a write attempt
NoHist == [fetched |-> FALSE, read |-> FALSE, assigned |-> FALSE,
           plain |-> TRUE, wrote |-> FALSE, ctor |-> "none"]

EntityInit ==
    /\ e_chef = "chef"
    /\ e_data = NoDoc
    /\ e_origin = "none"
    /\ srv = [exists |-> FALSE, doc |-> [id |-> Name, a |-> 1]]
    /\ last = NoOp
    /\ hist = NoHist

\* The data getter, lines 95-103, as a function of the state and of the
\* server's answer to the GET (used only when one is sent).  _post_data of
\* the base class does nothing.
DataRead(getok) ==
    IF e_data # NoDoc
    THEN [raised |-> "none", gets |-> 0, data |-> e_data, origin |-> e_origin, got |-> NoDoc]
    ELSE IF e_chef = "session"
    THEN [raised |-> "AttributeError", gets |-> 0, data |-> NoDoc, origin |-> "none",
          got |-> NoDoc]
    ELSE IF ~getok
    THEN [raised |-> "InvalidObject", gets |-> 1, data |-> NoDoc, origin |-> "none",
          got |-> NoDoc]
    ELSE [raised |-> "none", gets |-> 1, data |-> srv.doc, origin |-> "server",
          got |-> srv.doc]

\* EntityManager._get_entity_objects line 173 (listing path: the Chef, no
\* data) and Entity.from_data line 67 (search path: chef_instance.session and
\* the row's data).  The object exists on the server when it is listed.
Construct(path, d) ==
    /\ srv' = [exists |-> TRUE, doc |-> d]
    /\ e_chef' = IF path = "search" THEN "session" ELSE "chef"
    /\ e_data' = IF path = "search" THEN d ELSE NoDoc
    /\ e_origin' = IF path = "search" THEN "server" ELSE "none"
    /\ last' = [NoOp EXCEPT !.op = "construct"]
    /\ hist' = [NoHist EXCEPT !.ctor = path]
    /\ UNCHANGED notEntity

\* x = entity.data
Read(getok) ==
    /\ hist.ctor # "none"
    /\ getok => srv.exists
    /\ LET r == DataRead(getok)
       IN /\ e_data' = r.data
          /\ e_origin' = r.origin
          /\ last' = [NoOp EXCEPT !.op = "read", !.raised = r.raised, !.gets = r.gets,
                                  !.read = TRUE, !.doc = r.data, !.origin = r.origin,
                                  !.before = e_data, !.got = r.got,
                                  !.fetchedBefore = hist.fetched,
                                  !.readBefore = hist.read,
                                  !.afterWrite = hist.wrote]
          /\ hist' = [hist EXCEPT !.fetched = @ \/ (r.gets = 1 /\ r.raised = "none"),
                                  !.read = TRUE,
                                  !.wrote = IF r.raised = "none" THEN FALSE ELSE @]
    /\ UNCHANGED <<e_chef, srv>>
    /\ UNCHANGED notEntity

\* Entity._save_data(data), lines 78-87: a partial-update save.
Save(upd, getok, putok) ==
    /\ hist.ctor # "none"
    /\ getok => srv.exists
    /\ putok => srv.exists
    /\ LET r == DataRead(getok)
           payload == PreSaveData(Overlay(r.data, upd))
           base == [NoOp EXCEPT !.op = "save", !.gets = r.gets, !.read = TRUE,
                                !.before = e_data, !.got = r.got,
                                !.upd = upd, !.updAfter = upd,
                                !.fetchedBefore = hist.fetched,
                                !.readBefore = hist.read]
           fetched == hist.fetched \/ (r.gets = 1 /\ r.raised = "none")
       IN IF r.raised # "none"
          THEN /\ last' = [base EXCEPT !.raised = r.raised]
               /\ hist' = [hist EXCEPT !.read = TRUE, !.plain = FALSE, !.wrote = TRUE]
               /\ UNCHANGED <<e_data, e_origin, srv>>
          ELSE IF e_chef = "session"
          THEN /\ last' = [base EXCEPT !.raised = "AttributeError"]
               /\ hist' = [hist EXCEPT !.read = TRUE, !.plain = FALSE, !.wrote = TRUE]
               /\ UNCHANGED <<e_data, e_origin, srv>>
          ELSE /\ e_data' = CacheAfterPut(CachedAfterUpdate(r.data, upd), putok)
               /\ e_origin' = IF e_data' = NoDoc THEN "none" ELSE r.origin
               /\ srv' = IF putok THEN [srv EXCEPT !.doc = payload] ELSE srv
               /\ last' = [base EXCEPT !.puts = 1, !.putok = putok, !.body = payload,
                                       !.cur = r.data,
                                       !.updAfter = UpdateAfterSave(r.data, upd),
                                       !.raised = IF putok THEN "none" ELSE "InvalidObject",
                                       !.text = IF putok THEN "none" ELSE ServerText]
               /\ hist' = IF putok
                          THEN [hist EXCEPT !.fetched = FALSE, !.read = FALSE, !.wrote = TRUE]
                          ELSE [hist EXCEPT !.fetched = fetched, !.read = TRUE,
                                            !.plain = FALSE, !.wrote = TRUE]
    /\ UNCHANGED e_chef
    /\ UNCHANGED notEntity

\* entity.data = d, lines 105-113, for a dict d: _data becomes a copy of d
\* with id = name, which _save_data then reads back as the current document.
Assign(d, putok) ==
    /\ hist.ctor # "none"
    /\ putok => srv.exists
    /\ LET local == Overlay(d, [id |-> Name])
           payload == PreSaveData(Overlay(local, local))
           base == [NoOp EXCEPT !.op = "assign", !.read = TRUE, !.before = e_data,
                                !.fetchedBefore = hist.fetched, !.readBefore = hist.read]
       IN IF e_chef = "session"
          THEN /\ e_data' = local
               /\ e_origin' = "local"
               /\ last' = [base EXCEPT !.raised = "AttributeError"]
               /\ hist' = [hist EXCEPT !.read = TRUE, !.assigned = TRUE, !.plain = FALSE,
                                       !.wrote = TRUE]
               /\ UNCHANGED srv
          ELSE /\ e_data' = CacheAfterPut(local, putok)
               /\ e_origin' = IF e_data' = NoDoc THEN "none" ELSE "local"
               /\ srv' = IF putok THEN [srv EXCEPT !.doc = payload] ELSE srv
               /\ last' = [base EXCEPT !.puts = 1, !.putok = putok, !.body = payload,
                                       !.raised = IF putok THEN "none" ELSE "InvalidObject",
                                       !.text = IF putok THEN "none" ELSE ServerText]
               /\ hist' = [hist EXCEPT !.fetched = IF putok THEN FALSE ELSE @,
                                       !.read = ~putok, !.assigned = TRUE,
                                       !.plain = FALSE, !.wrote = TRUE]
    /\ UNCHANGED e_chef
    /\ UNCHANGED notEntity

\* entity.data = d for a d that is no dict, lines 108-110.
AssignNonDict ==
    /\ hist.ctor # "none"
    /\ last' = [NoOp EXCEPT !.op = "assign", !.raised = "InvalidObject", !.before = e_data]
    /\ UNCHANGED <<e_chef, e_data, e_origin, srv, hist>>
    /\ UNCHANGED notEntity

\* Entity.delete, lines 119-125.
Delete(delok) ==
    /\ hist.ctor # "none"
    /\ delok => srv.exists
    /\ IF e_chef = "session"
       THEN /\ last' = [NoOp EXCEPT !.op = "delete", !.raised = "AttributeError",
                                    !.before = e_data]
            /\ UNCHANGED srv
       ELSE /\ last' = [NoOp EXCEPT !.op = "delete", !.dels = 1, !.delok = delok,
                                    !.ret = IF delok THEN "True" ELSE "False",
                                    !.before = e_data]
            /\ srv' = IF delok THEN [srv EXCEPT !.exists = FALSE] ELSE srv
    /\ UNCHANGED <<e_chef, e_data, e_origin, hist>>
    /\ UNCHANGED notEntity

EntityNext ==
    \/ \E path \in {"listing", "search"}, d \in ServerDocs : Construct(path, d)
    \/ \E getok \in BOOLEAN : Read(getok)
    \/ \E upd \in Updates, getok \in BOOLEAN, putok \in BOOLEAN : Save(upd, getok, putok)
    \/ \E d \in AssignedDocs, putok \in BOOLEAN : Assign(d, putok)
    \/ AssignNonDict
    \/ \E delok \in BOOLEAN : Delete(delok)

(* --------------- Chef: by-name, create, membership --------------------- *)
\* The kinds Chef has a delete_<kind>_by_name for.
ByNameKinds == {"client", "environment", "node", "role"}

\* The kinds created through Chef._create.
ChefCreateKinds == {"client", "node", "role", "environment", "databag"}

\* The names callers pass and the server holds.
Names == {"web", "Web", "db"}

\* str.lower()
Lower(n) == IF n = "Web" THEN "web" ELSE n

\* f'{self._primary_match_field}:{value}'
PrimaryQuery(field, value) == field \o ":" \o value

\* EntityManager.filter, lines 183-194: keys is not passed on, and
\* _get_entity_objects runs with its defaults (no keys, MAX_ROW_COUNT rows).
Filter(q, k) == [query |-> q, keys |-> FALSE, max_row_count |-> MAX_ROW_COUNT]

NoCall == [op |-> "none", kind |-> "none", name |-> "none", ret |-> "none",
           raised |-> "none", text |-> "none", reqs |-> <<>>,
           rejected |-> FALSE, deleted |-> FALSE, hits |-> 0,
           proj |-> FALSE, respok |-> FALSE, mapping |-> {}, ents |-> {},
           rows |-> <<>>, found |-> <<>>]

\* The kinds Chef builds an EntityManager for (lines 165-414).
ManagerKinds == {"client", "cookbook", "databag", "environment", "node", "role"}

\* The index names a Chef server always lists under /search.
StandardIndexes == {"client", "environment", "node", "role"}

\* The index names the server lists for its data bags (one per data bag).
DataBagIndexes == {"databag"}

\* The collection of clients, environments, nodes or roles; lines 103-104:
\* self._search_indexes = response.json() of GET {org}/search.
ChefInit ==
    /\ coll \in {[kind |-> k, names |-> {}] : k \in ByNameKinds}
    /\ call = NoCall
    /\ search_indexes \in {StandardIndexes \cup x : x \in SUBSET DataBagIndexes}

\* A plain request of these operations: method and collection or object.
Plain(method, url) == [method |-> method, url |-> url]

\* get_<kind>_by_name, e.g. lines 383-393, over the direct listing: the
\* names the generator expression lets through.  A listing whose request
\* fails yields nothing.
Matches(kind, name, listok) ==
    IF listok /\ kind = coll.kind
    THEN {n \in coll.names : Lower(n) = Lower(name)} ELSE {}

\* delete_<kind>_by_name, e.g. lines 355-366: the listing found the entity
\* `found` (the first match in the server's order) and deletes it.
DeleteFound(kind, name, found, delok) ==
    /\ kind = coll.kind
    /\ found \in Matches(kind, name, TRUE)
    /\ call' = [NoCall EXCEPT !.op = "delete_by_name", !.kind = kind, !.name = name,
                              !.reqs = <<Plain("get", kind), Plain("delete", found)>>,
                              !.ret = IF delok THEN "True" ELSE "False",
                              !.deleted = delok]
    /\ coll' = IF delok THEN [coll EXCEPT !.names = @ \ {found}] ELSE coll
    /\ UNCHANGED search_indexes
    /\ UNCHANGED notChef

\* delete_<kind>_by_name when get_<kind>_by_name returned None: next(..., None)
\* found no match, or the listing failed; None has no delete.
DeleteMissing(kind, name, listok) ==
    /\ kind = coll.kind
    /\ Matches(kind, name, listok) = {}
    /\ call' = [NoCall EXCEPT !.op = "delete_by_name", !.kind = kind, !.name = name,
                              !.reqs = <<Plain("get", kind)>>,
                              !.raised = "AttributeError"]
    /\ UNCHANGED coll
    /\ UNCHANGED search_indexes
    /\ UNCHANGED notChef

\* Chef._create, lines 139-144, behind create_client, create_node,
\* create_role, create_environment and create_data_bag.  create_client and
\* create_data_bag return None for an empty name without a request.
ChefCreate(kind, name, ok) ==
    /\ kind \in {coll.kind, "databag"}
    /\ ok => name # "" /\ (kind = coll.kind => name \notin coll.names)
    /\ IF name = "" /\ kind \in {"client", "databag"}
       THEN /\ call' = [NoCall EXCEPT !.op = "create", !.kind = kind, !.name = name,
                                      !.ret = "None"]
            /\ UNCHANGED coll
       ELSE /\ call' = [NoCall EXCEPT !.op = "create", !.kind = kind, !.name = name,
                                      !.reqs = <<Plain("post", kind)>>,
                                      !.rejected = ~ok,
                                      !.ret = IF ok THEN "entity" ELSE "none",
                                      !.raised = IF ok THEN "none" ELSE "CreateFailed",
                                      !.text = IF ok THEN "none" ELSE ServerText]
            /\ coll' = IF ok /\ kind = coll.kind
                       THEN [coll EXCEPT !.names = @ \cup {name}] ELSE coll
    /\ UNCHANGED search_indexes
    /\ UNCHANGED notChef

\* DataBag.create_item, lines 68-78.  After an accepted POST the item's data
\* is assigned: a non-dict raises InvalidObject; for a dict the data getter
\* calls self._post_data(self), one argument too many for
\* DataBagItem._post_data.
CreateItem(name, isdict, ok) ==
    /\ call' = [NoCall EXCEPT !.op = "create", !.kind = "databagitem", !.name = name,
                              !.reqs = <<Plain("post", "databag")>>,
                              !.rejected = ~ok,
                              !.ret = IF ok THEN "none" ELSE "None",
                              !.raised = IF ~ok THEN "none"
                                         ELSE IF isdict THEN "TypeError"
                                         ELSE "InvalidObject"]
    /\ UNCHANGED coll
    /\ UNCHANGED search_indexes
    /\ UNCHANGED notChef

\* Client.create_key, lines 117-127.
CreateKey(name, ok) ==
    /\ call' = [NoCall EXCEPT !.op = "create", !.kind = "clientkey", !.name = name,
                              !.reqs = <<Plain("post", "keys")>>,
                              !.rejected = ~ok,
                              !.ret = IF ok THEN "entity" ELSE "None"]
    /\ UNCHANGED coll
    /\ UNCHANGED search_indexes
    /\ UNCHANGED notChef

\* EntityManager.__contains__, lines 180-181: next(self.filter(...), False)
\* runs the generator to its first entity.  The search answers with the
\* objects of the collection whose name is the value.
Contains(kind, value, ok) ==
    /\ kind = coll.kind
    /\ LET f == Filter(PrimaryQuery("name", value), TRUE)
           p == [q |-> f.query, rows |-> f.max_row_count, start |-> 0]
           hits == IF ok THEN Cardinality({n \in coll.names : n = value}) ELSE 0
       IN call' = [NoCall EXCEPT !.op = "contains", !.kind = kind, !.name = value,
                                 !.reqs = <<Request(f.keys, f.query, p)>>,
                                 !.hits = hits,
                                 !.ret = IF hits > 0 THEN "True" ELSE "False"]
    /\ UNCHANGED coll
    /\ UNCHANGED search_indexes
    /\ UNCHANGED notChef

\* The queries callers filter with.
Queries == {"name:web", "*:*"}

\* EntityManager.filter(query, keys), lines 183-194, and Chef.search_nodes,
\* lines 368-381, which calls it on a manager of nodes: the first request of
\* the search (every later one is sent with the same method and body, see
\* WorkerStart).  _request_url builds search/<kind> from the entity's class
\* name; nothing looks at _search_indexes.
FilterCall(via, kind, q, k, ok) ==
    /\ via = "search_nodes" => kind = "node"
    /\ LET f == Filter(q, k)
           p == [q |-> f.query, rows |-> f.max_row_count, start |-> 0]
       IN call' = [NoCall EXCEPT !.op = via, !.kind = kind, !.name = q, !.proj = k,
                                 !.respok = ok,
                                 !.reqs = <<Request(f.keys, f.query, p)>>,
                                 !.ret = "generator"]
    /\ UNCHANGED coll
    /\ UNCHANGED search_indexes
    /\ UNCHANGED notChef

\* The names a direct listing can hold.
ListedNames == {"web", "db", "total", "rows"}

\* The URL of an object of a collection.
UrlOf(kind, n) == kind \o "/" \o n

\* The value the server maps a name to: the object's URL, or for cookbooks
\* (cookbook.py lines 25-46) a mapping with 'url' and 'versions'.
ListingValue(kind, n) ==
    IF kind = "cookbook"
    THEN [shape |-> "dict", url |-> UrlOf(kind, n), versions |-> "versions"]
    ELSE [shape |-> "str", url |-> UrlOf(kind, n)]

\* EntityManager._verify_entity_url, lines 143-148.
VerifyEntityUrl(value) ==
    IF value.shape = "dict" /\ "url" \in DOMAIN value
    THEN [shape |-> "str", url |-> value.url] ELSE value

\* entity_object(self._chef, key, self._verify_entity_url(value)), line 173
ListedEntity(key, value) ==
    [name |-> key, url |-> VerifyEntityUrl(value), data |-> NoDoc, chef |-> "chef"]

\* One whole iteration of a manager, lines 109-123 with params = {} and lines
\* 172-175, over the server's mapping of `names`:
\*   total = response_data.get('total', 0) is the value of an object named
\*     'total', and `total > row_count` then compares a str or dict with an
\*     int: TypeError, after the entities were yielded;
\*   response_data.get('rows', response_data.items()) is the value of an
\*     object named 'rows', and `yield from` it hands out the characters of
\*     the URL or the keys of the mapping: `for key, value in entities`
\*     cannot unpack the first one, ValueError, before any entity.
ListingResult(kind, names, ok) ==
    IF ~ok THEN [ents |-> {}, raised |-> "none"]
    ELSE IF "rows" \in names THEN [ents |-> {}, raised |-> "ValueError"]
    ELSE [ents |-> {ListedEntity(n, ListingValue(kind, n)) : n \in names},
          raised |-> IF "total" \in names THEN "TypeError" ELSE "none"]

\* list(manager): EntityManager.__iter__ run to its end.
Listing(kind, names, ok) ==
    /\ LET r == ListingResult(kind, names, ok)
       IN call' = [NoCall EXCEPT !.op = "listing", !.kind = kind, !.respok = ok,
                                 !.mapping = names,
                                 !.reqs = <<Plain("get", kind)>>,
                                 !.ents = r.ents, !.raised = r.raised]
    /\ UNCHANGED coll
    /\ UNCHANGED search_indexes
    /\ UNCHANGED notChef

\* ENTITY_URL, configuration.py lines 1-10, for the kinds that have a
\* manager: the path segment after the organization URL.
EntityPath(kind) ==
    CASE kind = "client" -> "clients"
      [] kind = "cookbook" -> "cookbooks"
      [] kind = "databag" -> "data"
      [] kind = "environment" -> "environments"
      [] kind = "node" -> "nodes"
      [] kind = "role" -> "roles"

\* A URL as the sequence of its segments between '/'.
OrgUrl(kind, n) == <<"org", EntityPath(kind), n>>

\* Entity._generate_entity_url, lines 69-72; from_data gives no parent name,
\* and the templates of these kinds have no slot for one.
GenerateEntityUrl(kind, name) == <<"org", EntityPath(kind)>> \o <<name>>

\* url.split('/')[-1]
LastSegment(url) == url[Len(url)]

\* f"...{name}" and the name of an entity whose record has no 'name'.
PyNone == "None"

\* Entity.from_data(chef_instance, data), lines 54-67: the url of the record
\* when it has a non-empty one, else a URL built from its name; the entity
\* is constructed with chef_instance.session.
FromData(kind, data) ==
    IF "url" \in DOMAIN data /\ data.url # <<>>
    THEN [name |-> LastSegment(data.url), url |-> data.url, data |-> data,
          chef |-> "session"]
    ELSE LET name == IF "name" \in DOMAIN data THEN data.name ELSE PyNone
         IN [name |-> name, url |-> GenerateEntityUrl(kind, name), data |-> data,
             chef |-> "session"]

\* entity.get('data', entity), line 170: the record handed to from_data.
RowRecord(row) == IF "data" \in DOMAIN row THEN row.data ELSE row

\* A row that is the object itself, as a search without projection
\* returns it.
WholeObject == [name |-> "web", ip |-> "10.0.0.1"]

\* The rows a search answers with: a whole object; a row with its own url;
\* a row with an empty url; rows {url, data} whose data has the name or
\* only a projected attribute.
SearchRows(kind) ==
    {WholeObject,
     [url |-> OrgUrl(kind, "web"), name |-> "alias"],
     [url |-> <<>>, name |-> "db"],
     [url |-> OrgUrl(kind, "web"), data |-> [name |-> "web"]],
     [url |-> OrgUrl(kind, "web"), data |-> [ip |-> "10.0.0.1"]]}

\* list(manager._get_entity_objects(query, keys)) over one page of rows,
\* lines 165-175 with a query: one entity per row, in the order of the rows.
SearchHits(kind, q, k, rows) ==
    /\ kind = coll.kind
    /\ LET p == [q |-> q, rows |-> MAX_ROW_COUNT, start |-> 0]
       IN call' = [NoCall EXCEPT !.op = "search", !.kind = kind, !.name = q,
                                 !.proj = k, !.respok = TRUE,
                                 !.reqs = <<Request(k, q, p)>>,
                                 !.rows = rows,
                                 !.found = [i \in 1..Len(rows) |->
                                               FromData(kind, RowRecord(rows[i]))]]
    /\ UNCHANGED coll
    /\ UNCHANGED search_indexes
    /\ UNCHANGED notChef

ChefNext ==
    \/ \E kind \in ManagerKinds, k \in BOOLEAN :
          \E r \in SearchRows(kind), more \in BOOLEAN :
              SearchHits(kind, "*:*", k, IF more THEN <<r, WholeObject>> ELSE <<r>>)
    \/ \E k \in ByNameKinds, n \in Names, found \in Names, delok \in BOOLEAN :
          DeleteFound(k, n, found, delok)
    \/ \E k \in ByNameKinds, n \in Names, listok \in BOOLEAN : DeleteMissing(k, n, listok)
    \/ \E k \in ChefCreateKinds, n \in Names \cup {""}, ok \in BOOLEAN : ChefCreate(k, n, ok)
    \/ \E n \in Names, isdict \in BOOLEAN, ok \in BOOLEAN : CreateItem(n, isdict, ok)
    \/ \E n \in Names, ok \in BOOLEAN : CreateKey(n, ok)
    \/ \E k \in ByNameKinds, v \in Names, ok \in BOOLEAN : Contains(k, v, ok)
    \/ \E via \in {"filter", "search_nodes"}, k \in ManagerKinds, q \in Queries,
          keysGiven \in BOOLEAN, ok \in BOOLEAN : FilterCall(via, k, q, keysGiven, ok)
    \/ \E k \in ManagerKinds, names \in SUBSET ListedNames, ok \in BOOLEAN :
          Listing(k, names, ok)

(* ------------------ data-bag item cipher (databagitem.py) -------------- *)
\* Python values of item fields, tagged by type.
JInt(n) == [t |-> "int", n |-> n]

JStr(x) == [t |-> "str", s |-> x]

JNull == [t |-> "null"]

JList(xs) == [t |-> "list", xs |-> xs]

JDict(m) == [t |-> "dict", m |-> m]

\* A set: a value json.dumps has no encoding for.
PySet == [t |-> "set"]

\* A list that contains itself.
PyCyclic == [t |-> "cyclic"]

\* JSON text as a sequence of tokens: numbers, string literals, words and
\* punctuation.
Tok(kind, text) == [k |-> kind, x |-> text]

Punct(c) == Tok("punct", c)

\* The exception json.dumps raises for a value: TypeError for a type it
\* cannot serialize, ValueError for a circular reference.
DumpsRaises(v) ==
    IF v.t = "set" THEN "TypeError" ELSE IF v.t = "cyclic" THEN "ValueError" ELSE "none"

\* A serializer that writes str(value): a string without its quotes.
DumpsPrimBare(v) ==
    IF v.t = "int" THEN <<Tok("num", ToString(v.n))>>
    ELSE IF v.t = "str" THEN <<Tok(IF v.s = "null" THEN "word" ELSE "num", v.s)>>
    ELSE <<Tok("word", "null")>>

\* json.dumps of a number, string or None
DumpsPrim(v) ==
    IF v.t = "int" THEN <<Tok("num", ToString(v.n))>>
    ELSE IF v.t = "str" THEN <<Tok("strlit", v.s)>>
    ELSE <<Tok("word", "null")>>

RECURSIVE DumpsElements(_)
DumpsElements(xs) ==
    IF xs = <<>> THEN <<>>
    ELSE IF Len(xs) = 1 THEN DumpsPrim(xs[1])
    ELSE DumpsPrim(xs[1]) \o <<Punct(",")>> \o DumpsElements(Tail(xs))

\* json.dumps(value).encode(), line 109: the ASCII bytes of the JSON text of
\* a number, a string, None, a list of those, or a one-member mapping.
JsonDumps(v) ==
    IF v.t = "list" THEN <<Punct("[")>> \o DumpsElements(v.xs) \o <<Punct("]")>>
    ELSE IF v.t = "dict"
    THEN LET key == CHOOSE key \in DOMAIN v.m : TRUE
         IN <<Punct("{"), Tok("strlit", key), Punct(":")>> \o DumpsPrim(v.m[key])
               \o <<Punct("}")>>
    ELSE DumpsPrim(v)

\* The numbers of the modelled documents.
Numbers == 0..9

NotJson == [t |-> "invalid"]

\* json.loads of one token
LoadsPrim(tok) ==
    IF tok.k = "num" /\ \E n \in Numbers : ToString(n) = tok.x
    THEN JInt(CHOOSE n \in Numbers : ToString(n) = tok.x)
    ELSE IF tok.k = "strlit" THEN JStr(tok.x)
    ELSE IF tok = Tok("word", "null") THEN JNull
    ELSE NotJson

\* json.loads(result), line 95; NotJson where it raises JSONDecodeError.
JsonLoads(toks) ==
    IF Len(toks) = 1 THEN LoadsPrim(toks[1])
    ELSE IF Len(toks) >= 2 /\ toks[1] = Punct("[") /\ toks[Len(toks)] = Punct("]")
    THEN LET inner == SubSeq(toks, 2, Len(toks) - 1)
             n == (Len(inner) + 1) \div 2
             xs == [i \in 1..n |-> LoadsPrim(inner[2 * i - 1])]
         IN IF Len(inner) = 0 THEN JList(<<>>)
            ELSE IF /\ Len(inner) = 2 * n - 1
                    /\ \A i \in 1..(n - 1) : inner[2 * i] = Punct(",")
                    /\ \A i \in 1..n : xs[i] # NotJson
            THEN JList(xs) ELSE NotJson
    ELSE IF /\ Len(toks) = 5 /\ toks[1] = Punct("{") /\ toks[2].k = "strlit"
            /\ toks[3] = Punct(":") /\ toks[5] = Punct("}")
            /\ LoadsPrim(toks[4]) # NotJson
    THEN JDict([key \in {toks[2].x} |-> LoadsPrim(toks[4])])
    ELSE NotJson

\* key = SHA256.new(secret).digest()
DeriveKey(secret) == [sha256 |-> secret]

\* cipher.encrypt_and_digest(plaintext) of AES-GCM under key and nonce: the
\* ciphertext and the authentication tag over it.
GcmEncrypt(key, nonce, pt) ==
    LET ct == [k |-> key, n |-> nonce, pt |-> pt]
    IN [ct |-> ct, tag |-> [mk |-> key, mn |-> nonce, mct |-> ct]]

\* Bytes that are no JSON text.
Garbage == <<Tok("word", "garbage")>>

\* cipher.decrypt_and_verify(ciphertext, tag), line 94: ValueError ("MAC
\* check failed") unless the tag is the one of this key, nonce and ciphertext.
DecryptAndVerify(key, nonce, ct, tag) ==
    IF tag # [mk |-> key, mn |-> nonce, mct |-> ct]
    THEN [raised |-> "ValueError", pt |-> <<>>]
    ELSE [raised |-> "none", pt |-> IF ct.k = key /\ ct.n = nonce THEN ct.pt ELSE Garbage]

\* b64encode(x).decode('utf-8')
B64Encode(bytes) == [enc |-> "b64", of |-> bytes]

\* b64_chunker, lines 70-71: the base64 text in lines of 60 characters.
B64Chunker(b64) == [enc |-> "lines", of |-> b64]

\* A string that is no base64 text (incorrect padding).
BadBase64 == [enc |-> "bad"]

\* b64decode(s): line breaks are discarded; binascii.Error, a ValueError, on
\* text that is no base64.
B64Decode(x) ==
    IF x.enc = "lines" THEN [raised |-> "none", bytes |-> x.of.of]
    ELSE IF x.enc = "b64" THEN [raised |-> "none", bytes |-> x.of]
    ELSE [raised |-> "ValueError", bytes |-> <<>>]

\* json_k, line 66
JsonK == <<"iv", "encrypted_data", "auth_tag">>

\* An item: its id (when it has one) and its other fields in dict order.
Item(id, fields) == [hasid |-> TRUE, id |-> id, fields |-> fields]

Field(name, value) == [k |-> name, v |-> value]

NoItem == [hasid |-> FALSE, id |-> "", fields |-> <<>>]

\* `except (ValueError, KeyError)`, lines 96 and 113
Caught == {"ValueError", "KeyError"}

\* Lines 108-112 for one field under a cipher with the given nonce.
EncryptField(v, key, nonce) ==
    IF DumpsRaises(v) # "none" THEN [raised |-> DumpsRaises(v), val |-> JNull]
    ELSE LET c == GcmEncrypt(key, nonce, JsonDumps(v))
         IN [raised |-> "none",
             val |-> JDict([iv |-> B64Chunker(B64Encode(nonce)),
                            encrypted_data |-> B64Chunker(B64Encode(c.ct)),
                            auth_tag |-> B64Chunker(B64Encode(c.tag)),
                            version |-> 3,
                            cipher |-> "aes-256-gcm"])]

\* One cipher, hence one nonce, for all the fields of a call.
CallNonce(start, drawn) == start + 1

\* AES.new(key, AES.MODE_GCM) inside the loop, line 108: every field gets a
\* cipher of its own, whose nonce is the next 16 bytes of the random
\* generator.  The generator's outputs are taken to be pairwise distinct and
\* are named by their position; `start` is the number of draws before the
\* call, `drawn` the number of draws so far.
FieldNonce(start, drawn) == drawn + 1

\* The loop of _encrypt_item, lines 105-112.
RECURSIVE EncryptFields(_, _, _, _, _)
EncryptFields(fields, key, start, drawn, acc) ==
    IF fields = <<>> THEN [raised |-> "none", fields |-> acc, drawn |-> drawn]
    ELSE LET r == EncryptField(Head(fields).v, key, FieldNonce(start, drawn))
         IN IF r.raised # "none"
            THEN [raised |-> r.raised, fields |-> acc, drawn |-> drawn + 1]
            ELSE EncryptFields(Tail(fields), key, start, drawn + 1,
                               Append(acc, Field(Head(fields).k, r.val)))

\* _encrypt_item(data, secret), lines 101-115.  data['id'] is read outside
\* the try.
EncryptItem(data, secret, draws) ==
    IF ~data.hasid
    THEN [raised |-> "KeyError", out |-> NoItem, logged |-> FALSE, drawn |-> draws]
    ELSE LET r == EncryptFields(data.fields, DeriveKey(secret), draws, draws, <<>>)
         IN IF r.raised = "none" \/ r.raised \in Caught
            THEN [raised |-> "none", out |-> Item(data.id, r.fields),
                  logged |-> r.raised # "none", drawn |-> r.drawn]
            ELSE [raised |-> r.raised, out |-> NoItem, logged |-> FALSE, drawn |-> r.drawn]

\* data[item_key][k] for one k of json_k, line 92: KeyError for a missing
\* member, else b64decode of it.
MemberDecode(m, k) ==
    IF k \notin DOMAIN m THEN [raised |-> "KeyError", bytes |-> <<>>] ELSE B64Decode(m[k])

\* Lines 92-95 for one field.  Subscripting a value that is no mapping with
\* 'iv' raises TypeError.
DecryptField(v, key) ==
    IF v.t # "dict" THEN [raised |-> "TypeError", val |-> JNull]
    ELSE LET iv == MemberDecode(v.m, JsonK[1])
             encrypted_data == MemberDecode(v.m, JsonK[2])
             auth_tag == MemberDecode(v.m, JsonK[3])
         IN IF iv.raised # "none" THEN [raised |-> iv.raised, val |-> JNull]
            ELSE IF encrypted_data.raised # "none"
            THEN [raised |-> encrypted_data.raised, val |-> JNull]
            ELSE IF auth_tag.raised # "none" THEN [raised |-> auth_tag.raised, val |-> JNull]
            ELSE LET d == DecryptAndVerify(key, iv.bytes, encrypted_data.bytes,
                                           auth_tag.bytes)
                 IN IF d.raised # "none" THEN [raised |-> d.raised, val |-> JNull]
                    ELSE IF JsonLoads(d.pt) = NotJson
                    THEN [raised |-> "ValueError", val |-> JNull]
                    ELSE [raised |-> "none", val |-> JsonLoads(d.pt)]

\* The loop of _decrypt_item, lines 89-95; `tried` lists the fields handed
\* to decryption.
RECURSIVE DecryptFields(_, _, _, _)
DecryptFields(fields, key, acc, tried) ==
    IF fields = <<>> THEN [raised |-> "none", fields |-> acc, tried |-> tried]
    ELSE LET r == DecryptField(Head(fields).v, key)
             t == Append(tried, Head(fields).k)
         IN IF r.raised # "none" THEN [raised |-> r.raised, fields |-> acc, tried |-> t]
            ELSE DecryptFields(Tail(fields), key,
                               Append(acc, Field(Head(fields).k, r.val)), t)

\* _decrypt_item(data, secret), lines 85-98.
DecryptItem(data, secret) ==
    IF ~data.hasid
    THEN [raised |-> "KeyError", out |-> NoItem, logged |-> FALSE, tried |-> <<>>]
    ELSE LET r == DecryptFields(data.fields, DeriveKey(secret), <<>>, <<>>)
         IN IF r.raised = "none" \/ r.raised \in Caught
            THEN [raised |-> "none", out |-> Item(data.id, r.fields),
                  logged |-> r.raised # "none", tried |-> r.tried]
            ELSE [raised |-> r.raised, out |-> NoItem, logged |-> FALSE, tried |-> r.tried]

(* ----------------- calls of the cipher's two functions ----------------- *)
\* the random generator hands out at most this many nonces in a behaviour
MaxDraws == 3

\* The secrets callers pass.
Secrets == {"s1", "s2"}

\* JSON values: numbers, strings, None, lists and mappings of them.
PlainValues ==
    {JInt(1), JStr("1"), JStr("null"), JNull, JList(<<>>),
     JList(<<JInt(1), JStr(","), JNull>>), JDict([key \in {"k"} |-> JStr("1")])}

\* Items with an id and JSON-serializable field values.
PlainItems ==
    {Item("x", <<>>)}
        \cup {Item("x", <<Field("a", v)>>) : v \in PlainValues}
        \cup {Item("x", <<Field("a", v), Field("b", JStr("1"))>>) : v \in {JInt(1), JStr("1")}}

\* Items _encrypt_item cannot handle: a value without a JSON encoding, a
\* circular value, no id.
OddItems ==
    {Item("x", <<Field("a", JInt(1)), Field("b", PySet)>>),
     Item("x", <<Field("a", JInt(1)), Field("b", PyCyclic)>>),
     [hasid |-> FALSE, id |-> "", fields |-> <<Field("a", JInt(1))>>]}

\* The item d with the value of its i-th field replaced.
WithField(d, i, v) == [d EXCEPT !.fields[i].v = v]

\* The mapping m without member k.
Without(m, k) == [x \in DOMAIN m \ {k} |-> m[x]]

\* A version-1 or version-2 envelope: no auth_tag.
LegacyEnvelope(version) ==
    JDict([iv |-> B64Chunker(B64Encode(0)),
           encrypted_data |-> B64Chunker(B64Encode(GcmEncrypt(DeriveKey("s1"), 0, Garbage).ct)),
           version |-> version,
           cipher |-> "aes-256-cbc"])

\* Items with two version-3 fields, as the server stores them.
EncryptedItems ==
    {EncryptItem(Item("x", <<Field("a", v), Field("b", JStr("1"))>>), secret, 0).out :
        v \in {JInt(1), JStr("1")}, secret \in Secrets}

\* What a stored field can hold in place of the version-3 envelope e of
\* another field a: e without auth_tag, without iv, with a's tag, with an iv
\* that is no base64, with a plaintext that is no JSON, a plain string, a
\* number, a version-1 or version-2 envelope.
Damaged(e, a) ==
    LET junk == GcmEncrypt(DeriveKey("s1"), 7, Garbage)
    IN {JDict(Without(e.m, "auth_tag")),
        JDict(Without(e.m, "iv")),
        JDict([e.m EXCEPT !.auth_tag = a.m.auth_tag]),
        JDict([e.m EXCEPT !.iv = BadBase64]),
        JDict([e.m EXCEPT !.iv = B64Chunker(B64Encode(7)),
                          !.encrypted_data = B64Chunker(B64Encode(junk.ct)),
                          !.auth_tag = B64Chunker(B64Encode(junk.tag))]),
        JStr("plain"),
        JInt(1),
        LegacyEnvelope(1),
        LegacyEnvelope(2)}

\* The items _decrypt_item is called with: encrypted items, whole or with
\* one field damaged, or without id.
StoredItems ==
    EncryptedItems
        \cup UNION {{WithField(d, 1, v) : v \in Damaged(d.fields[1].v, d.fields[2].v)} :
                       d \in EncryptedItems}
        \cup UNION {{WithField(d, 2, v) : v \in Damaged(d.fields[2].v, d.fields[1].v)} :
                       d \in EncryptedItems}
        \cup {[d EXCEPT !.hasid = FALSE, !.id = ""] : d \in EncryptedItems}

NoEnc == [done |-> FALSE, data |-> NoItem, secret |-> "", raised |-> "none",
          out |-> NoItem, logged |-> FALSE]

NoCipherCall == [op |-> "none", data |-> NoItem, secret |-> "", raised |-> "none",
                 out |-> NoItem, logged |-> FALSE, tried |-> <<>>, of |-> "input",
                 encrypted |-> FALSE]

CipherInit ==
    /\ rng = 0
    /\ c_log = <<>>
    /\ c_prev = NoEnc
    /\ c_enc = NoEnc
    /\ c_last = NoCipherCall

\* _encrypt_item(data, secret)
EncryptCall(data, secret) ==
    /\ rng + Len(data.fields) <= MaxDraws
    /\ LET r == EncryptItem(data, secret, rng)
       IN /\ rng' = r.drawn
          /\ c_log' = c_log \o [i \in 1..Len(r.out.fields) |->
                                   [key |-> DeriveKey(secret),
                                    iv |-> r.out.fields[i].v.m.iv]]
          /\ c_prev' = c_enc
          /\ c_enc' = [done |-> TRUE, data |-> data, secret |-> secret,
                       raised |-> r.raised, out |-> r.out, logged |-> r.logged]
          /\ c_last' = [NoCipherCall EXCEPT !.op = "encrypt", !.data = data,
                                            !.secret = secret, !.raised = r.raised,
                                            !.out = r.out, !.logged = r.logged]
    /\ UNCHANGED notCipher

\* _decrypt_item(data, secret); `of` tells where data came from.
DecryptCallOf(data, secret, of) ==
    /\ LET r == DecryptItem(data, secret)
       IN c_last' = [NoCipherCall EXCEPT !.op = "decrypt", !.data = data,
                                         !.secret = secret, !.raised = r.raised,
                                         !.out = r.out, !.logged = r.logged,
                                         !.tried = r.tried, !.of = of]
    /\ UNCHANGED <<rng, c_log, c_prev, c_enc>>
    /\ UNCHANGED notCipher

\* The strings of the model that have 'version' as a substring.
VersionTexts == {"version", "conversion"}

\* Line 77, `'version' in data[k]`: a key test on a mapping, a substring
\* test on a string, a membership test on a list or set, and a TypeError on
\* a value that is no container (a number, None).
VersionIn(v) ==
    CASE v.t = "dict" -> [raised |-> "none", found |-> "version" \in DOMAIN v.m]
      [] v.t = "str" -> [raised |-> "none", found |-> v.s \in VersionTexts]
      [] v.t = "list" -> [raised |-> "none",
                          found |-> \E i \in 1..Len(v.xs) : v.xs[i] = JStr("version")]
      [] v.t \in {"set", "cyclic"} -> [raised |-> "none", found |-> FALSE]
      [] OTHER -> [raised |-> "TypeError", found |-> FALSE]

\* Lines 77-81 for one value: `data[k]['version']` is read when the test
\* of line 77 is true, which only a mapping allows.
VersionOf(v) ==
    LET t == VersionIn(v)
    IN IF t.raised # "none" THEN [raised |-> t.raised, version |-> 0, found |-> FALSE]
       ELSE IF ~t.found THEN [raised |-> "none", version |-> 0, found |-> FALSE]
       ELSE IF v.t # "dict" THEN [raised |-> "TypeError", version |-> 0, found |-> FALSE]
       ELSE [raised |-> "none", version |-> v.m.version, found |-> TRUE]

\* The members data.keys() runs over: the id, when there is one, and the
\* fields.
Members(data) ==
    (IF data.hasid THEN {JStr(data.id)} ELSE {})
        \cup {data.fields[i].v : i \in 1..Len(data.fields)}

\* DataBagItem._is_encrypted(data), lines 74-82: every failure of a member
\* is a TypeError, so which member is met first does not change the outcome;
\* without one, the item is encrypted when some member has version 3.
IsEncrypted(data) ==
    LET vs == {VersionOf(v) : v \in Members(data)}
    IN IF \E r \in vs : r.raised # "none"
       THEN [raised |-> "TypeError", encrypted |-> FALSE, logged |-> FALSE]
       ELSE [raised |-> "none",
             encrypted |-> \E r \in vs : r.found /\ r.version = 3,
             logged |-> \E r \in vs : r.found /\ r.version \in {1, 2}]

\* The documents _is_encrypted is asked about: stored items, plaintext
\* items, and plaintext items whose id or value has the text 'version'.
CheckedItems ==
    StoredItems \cup PlainItems
        \cup {Item("version", <<Field("a", JStr("1"))>>),
              Item("x", <<Field("a", JStr("conversion"))>>),
              Item("x", <<Field("a", JList(<<JStr("version")>>))>>)}

\* _is_encrypted(data)
IsEncryptedCall(data) ==
    /\ data \in CheckedItems
    /\ LET r == IsEncrypted(data)
       IN c_last' = [NoCipherCall EXCEPT !.op = "is_encrypted", !.data = data,
                                         !.raised = r.raised,
                                         !.encrypted = r.encrypted,
                                         !.logged = r.logged]
    /\ UNCHANGED <<rng, c_log, c_prev, c_enc>>
    /\ UNCHANGED notCipher

\* _decrypt_item on what the latest _encrypt_item returned
DecryptEncrypted(secret) ==
    /\ c_enc.done
    /\ c_enc.raised = "none"
    /\ DecryptCallOf(c_enc.out, secret, "enc")

\* _decrypt_item on an item as the server stores it
DecryptStored(data, secret) ==
    /\ data \in StoredItems
    /\ DecryptCallOf(data, secret, "input")

CipherNext ==
    \/ \E d \in PlainItems \cup OddItems, secret \in Secrets : EncryptCall(d, secret)
    \/ \E secret \in Secrets : DecryptEncrypted(secret)

StoredNext ==
    \/ \E d \in StoredItems, secret \in Secrets : DecryptStored(d, secret)
    \/ \E d \in CheckedItems : IsEncryptedCall(d)

(* ------------------- DataBagItem and Cookbook entities ----------------- *)
\* The documents the server holds for a data bag item: items encrypted with
\* a secret (all fields version 3), the same with one field a version-1 or
\* version-2 envelope, and a plaintext item.
ItemDocs ==
    {[doc |-> EncryptItem(p, secret, 0).out, plain |-> p, by |-> secret, legacy |-> {}] :
        p \in {Item("x", <<Field("a", JInt(1)), Field("b", JStr("1"))>>)}, secret \in Secrets}
        \cup {[doc |-> WithField(d, i, LegacyEnvelope(v)), plain |-> NoItem, by |-> "s1",
               legacy |-> {i}] : d \in EncryptedItems, i \in 1..2, v \in 1..2}
        \cup {[doc |-> p, plain |-> p, by |-> "none", legacy |-> {}] :
                p \in {Item("x", <<Field("a", JInt(1))>>)}}

\* The response to GET <cookbooks>/<name>: the payload under the cookbook's
\* name (cookbook.py lines 25-46).
CookbookDocs ==
    {[doc |-> [n \in {Name} |-> [url |-> UrlOf("cookbook", n), versions |-> vs]],
      plain |-> NoItem, by |-> "none", legacy |-> {}] :
        vs \in {<<"1.0.0">>, <<"1.0.0", "0.3.0">>}}

\* self._post_data(self), base.py line 102.  Entity._post_data is a
\* staticmethod with one parameter; DataBagItem._post_data (databagitem.py
\* line 129) and Cookbook._post_data (cookbook.py line 65) override it with
\* plain methods of one parameter, so the call passes the instance twice and
\* raises TypeError before the method's body runs.
PostDataCall(kind) == IF kind \in {"databagitem", "cookbook"} THEN "TypeError" ELSE "none"

\* The data getter, base.py lines 95-103, on a DataBagItem or Cookbook.
KindDataRead(getok) ==
    LET fetch == k_data = NoDoc
        gets == IF fetch THEN 1 ELSE 0
        data == IF fetch THEN k_srv.doc ELSE k_data
    IN IF fetch /\ ~getok
       THEN [raised |-> "InvalidObject", gets |-> 1, cache |-> NoDoc, ret |-> NoDoc]
       ELSE IF PostDataCall(k_kind) # "none"
       THEN [raised |-> PostDataCall(k_kind), gets |-> gets, cache |-> data, ret |-> NoDoc]
       ELSE [raised |-> "none", gets |-> gets, cache |-> data, ret |-> data]

\* payload.update(data) for an item and a one-field update.
ItemOverlay(d, f) ==
    IF \E i \in 1..Len(d.fields) : d.fields[i].k = f.k
    THEN [d EXCEPT !.fields = [i \in 1..Len(d.fields) |->
                                  IF d.fields[i].k = f.k THEN f ELSE d.fields[i]]]
    ELSE [d EXCEPT !.fields = Append(d.fields, f)]

\* DataBagItem._pre_save_data, databagitem.py lines 123-127.
ItemPreSaveData(data, secret, draws) ==
    IF secret # "none" THEN EncryptItem(data, secret, draws)
    ELSE [raised |-> "none", out |-> data, logged |-> FALSE, drawn |-> draws]

NoKindOp == [op |-> "none", raised |-> "none", gets |-> 0, puts |-> 0, getok |-> FALSE,
             ret |-> NoDoc, body |-> NoDoc, before |-> NoDoc, tried |-> <<>>,
             srv |-> [doc |-> NoDoc, plain |-> NoItem, by |-> "none", legacy |-> {}]]

KindInit ==
    /\ k_kind = "none"
    /\ k_secret = "none"
    /\ k_data = NoDoc
    /\ k_srv = NoKindOp.srv
    /\ k_last = NoKindOp

\* DataBag.get_item_by_name, databag.py line 66: DataBagItem(self._chef, name,
\* url, _secret=secret); the cookbooks manager, base.py line 173:
\* Cookbook(self._chef, key, url).  Neither has data yet.
KConstruct(kind, secret, doc) ==
    /\ kind = "databagitem" => doc \in ItemDocs
    /\ kind = "cookbook" => (doc \in CookbookDocs /\ secret = "none")
    /\ k_kind' = kind
    /\ k_secret' = secret
    /\ k_data' = NoDoc
    /\ k_srv' = doc
    /\ k_last' = [NoKindOp EXCEPT !.op = "construct"]
    /\ UNCHANGED rng
    /\ UNCHANGED notKind

\* x = entity.data
KRead(getok) ==
    /\ k_kind # "none"
    /\ LET r == KindDataRead(getok)
       IN /\ k_data' = r.cache
          /\ k_last' = [NoKindOp EXCEPT !.op = "read", !.raised = r.raised, !.gets = r.gets,
                                        !.getok = getok, !.ret = r.ret, !.before = k_data,
                                        !.srv = k_srv]
    /\ UNCHANGED <<k_kind, k_secret, k_srv, rng>>
    /\ UNCHANGED notKind

\* item._save_data(update), base.py lines 78-87, on a DataBagItem.
KSave(upd, getok, putok) ==
    /\ k_kind = "databagitem"
    /\ LET r == KindDataRead(getok)
           base == [NoKindOp EXCEPT !.op = "save", !.gets = r.gets, !.getok = getok,
                                    !.before = k_data, !.srv = k_srv]
       IN IF r.raised # "none"
          THEN /\ k_data' = r.cache
               /\ k_last' = [base EXCEPT !.raised = r.raised]
               /\ UNCHANGED <<k_srv, rng>>
          ELSE LET e == ItemPreSaveData(ItemOverlay(r.ret, upd), k_secret, rng)
               IN IF e.raised # "none"
                  THEN /\ k_data' = r.cache
                       /\ k_last' = [base EXCEPT !.raised = e.raised]
                       /\ rng' = e.drawn
                       /\ UNCHANGED k_srv
                  ELSE /\ k_data' = CacheAfterPut(r.cache, putok)
                       /\ k_last' = [base EXCEPT !.puts = 1, !.body = e.out,
                                                 !.raised = IF putok THEN "none"
                                                            ELSE "InvalidObject"]
                       /\ rng' = e.drawn
                       /\ k_srv' = IF putok
                                   THEN [doc |-> e.out, plain |-> ItemOverlay(r.ret, upd),
                                         by |-> k_secret, legacy |-> {}]
                                   ELSE k_srv
    /\ UNCHANGED <<k_kind, k_secret>>
    /\ UNCHANGED notKind

KindNext ==
    \/ \E kind \in {"databagitem", "cookbook"}, secret \in Secrets \cup {"none"},
          doc \in ItemDocs \cup CookbookDocs : KConstruct(kind, secret, doc)
    \/ \E getok \in BOOLEAN : KRead(getok)
    \/ \E upd \in {Field("a", JInt(2)), Field("c", JStr("1"))}, getok \in BOOLEAN,
          putok \in BOOLEAN : KSave(upd, getok, putok)

(* --------------------------- specifications ---------------------------- *)
Init ==
    /\ PagerInit
    /\ EntityInit
    /\ coll = [kind |-> "node", names |-> {}]
    /\ call = NoCall
    /\ search_indexes = StandardIndexes
    /\ CipherInit
    /\ KindInit

ChefSpecInit ==
    /\ PagerInit
    /\ EntityInit
    /\ ChefInit
    /\ CipherInit
    /\ KindInit

\* One iteration of a search through the paginator.
Spec == Init /\ [][PagerNext]_vars

\* The life of one Entity.
EntitySpec == Init /\ [][EntityNext]_vars

\* The paginator with a caller that keeps iterating and requests that all
\* return or fail: the generator's own steps (submitting, taking the next
\* finished future from as_completed) are taken when they can be, a free
\* pool thread takes the oldest queued work item, and a request that was
\* sent ends.  Nothing obliges a caller to start a search or to drop a
\* finished one.
FairSearch ==
    \E r \in 1..MaxRows, t \in 0..MaxTotal : FirstRequest("*:*", FALSE, r, t, "ok")

\* A page request returns its page or fails; FutureResult treats a page
\* answered with a non-success status as it treats one that raised.
FairOutcomes == {"ok", "exc"}

FairNext ==
    \/ FairSearch
    \/ SubmitPage
    \/ \E i \in 1..MaxTotal : WorkerStart(i)
    \/ \E i \in 1..MaxTotal, o \in FairOutcomes : WorkerFinish(i, o)
    \/ \E i \in 1..MaxTotal : Collect(i)
    \/ Reset

FairSpec ==
    /\ Init /\ [][FairNext]_vars
    /\ WF_vars(SubmitPage)
    /\ WF_vars(\E i \in 1..MaxTotal : WorkerStart(i))
    /\ WF_vars(\E i \in 1..MaxTotal, o \in FairOutcomes : WorkerFinish(i, o))
    /\ WF_vars(\E i \in 1..MaxTotal : Collect(i))

\* Calls of the by-name, create and membership operations.
ChefSpec == ChefSpecInit /\ [][ChefNext]_vars

\* Calls of _encrypt_item, and of _decrypt_item on what it returned.
CipherSpec == Init /\ [][CipherNext]_vars

\* Calls of _decrypt_item on stored items.
StoredSpec == Init /\ [][StoredNext]_vars

\* The life of one DataBagItem or Cookbook.
KindSpec == Init /\ [][KindNext]_vars

(* ------------------------- claims: the paginator ----------------------- *)
\* a / b rounded up
CeilDiv(a, b) == (a + b - 1) \div b

\* How many times record r was yielded.
Times(r) == Cardinality({i \in 1..Len(yielded) : yielded[i] = r})

\* The records of the fan-out page with index k (start offset k * rows).
OnPage(r, k) == r < total /\ r \div params.rows = k

SearchDone == ppc = "done" /\ first = "ok" /\ query # "none"

\* C1: a search whose first response reports total <= rows issues exactly one
\* request and yields the rows of that response once each, in server order.
C1_SinglePage ==
    (SearchDone /\ total <= params.rows)
        => /\ Len(requests) = 1
           /\ requests[1].start = 0
           /\ yielded = PageRows(0, params.rows, total)
           /\ raised = "none"

C1_Witness ==
    /\ SearchDone
    /\ total = params.rows
    /\ total = MaxRows
    /\ Len(yielded) = MaxRows

\* C2: a search whose first response reports total > rows yields, as a
\* multiset, the first page plus every fan-out page whose request succeeded;
\* a failed page contributes nothing, raises nothing and stops no other page.
C2_PagesMultiset ==
    (SearchDone /\ total > params.rows)
        => /\ raised = "none"
           /\ Len(futures) = CeilDiv(total - params.rows, params.rows)
           /\ \A k \in 1..Len(futures) : futures[k].collected
           /\ \A i \in 1..Len(yielded) : yielded[i] \in 0..(total - 1)
           /\ \A r \in 0..(total - 1) :
                 Times(r) = (IF r < params.rows THEN 1 ELSE 0)
                            + Cardinality({k \in 1..Len(futures) :
                                             futures[k].state = "ok" /\ OnPage(r, k)})

C2_Witness ==
    /\ SearchDone
    /\ Len(futures) >= 3
    /\ futures[1].state = "bad_status"
    /\ futures[2].state = "exc"
    /\ futures[3].state = "ok"
    /\ Len(yielded) > params.rows

\* C3: the fan-out sends exactly ceil((total - rows) / rows) requests, one
\* for each start offset rows, 2*rows, ... < total, no two with the same
\* offset at any moment, each with the q and rows of the first request.
C3_FanOutRequests ==
    /\ \A i \in 2..Len(requests) :
          /\ requests[i].q = requests[1].q
          /\ requests[i].rows = requests[1].rows
          /\ requests[i].method = requests[1].method
          /\ requests[i].url = requests[1].url
          /\ \A j \in 2..Len(requests) : i # j => requests[i].start # requests[j].start
    /\ (SearchDone /\ total > params.rows)
          => /\ Len(requests) - 1 = CeilDiv(total - params.rows, params.rows)
             /\ {requests[i].start : i \in 2..Len(requests)}
                   = {s \in 1..(total - 1) : s % params.rows = 0}

C3_Witness ==
    /\ SearchDone
    /\ Len(requests) = MaxHttpWorkers + 2
    /\ Len(futures) = MaxHttpWorkers + 1

\* C22: when the first request of a listing or of a search is answered
\* with a non-success status, the iteration yields nothing, raises nothing
\* to the caller and sends no further request.
C22_FirstFailureYieldsNothing ==
    first = "bad_status"
        => /\ ppc = "done"
           /\ yielded = <<>>
           /\ raised = "none"
           /\ Len(requests) = 1
           /\ futures = <<>>

\* A partial search whose first request is refused.
C22_Witness ==
    /\ first = "bad_status"
    /\ ppc = "done"
    /\ requests[1].url = "search"
    /\ requests[1].method = "post"
    /\ requests[1].rows = MaxRows

\* C21: when every request that was sent returns or fails, the iteration of
\* a search of more than one page ends, after every page future was awaited,
\* whether the pages succeeded or failed and in whatever order they ended.
C21_MultiPageSearchEnds ==
    (ppc \in {"submit", "collect"})
        ~> /\ ppc = "done"
           /\ raised = "none"
           /\ futures # <<>>
           /\ \A i \in 1..Len(futures) :
                  futures[i].collected /\ futures[i].state \in PageOutcomes

\* A search of more pages than the pool has threads that ended with pages
\* that returned and pages that failed, the last submitted page awaited first.
C21_Witness ==
    /\ ppc = "done"
    /\ Len(futures) > MaxHttpWorkers
    /\ \A i \in 1..Len(futures) : futures[i].collected
    /\ {futures[i].state : i \in 1..Len(futures)} = FairOutcomes
    /\ futures[Len(futures)].state = "ok"
    /\ yielded # <<>>
    /\ Len(yielded) > params.rows
    /\ yielded[params.rows + 1] = futures[Len(futures)].sent.start

\* The page requests that were sent and have not returned yet.
InFlight == {i \in 1..Len(futures) : futures[i].state = "running"}

\* C20: at every moment of the fan-out at most 4 page requests (the worker
\* limit) are in flight, and while 4 are in flight no further request
\* starts: one beyond the limit starts only after an earlier one finished.
C20_AtMostFourInFlight ==
    [][/\ Cardinality(InFlight') <= MaxHttpWorkers
       /\ Cardinality(InFlight) = MaxHttpWorkers => InFlight' \subseteq InFlight]_vars

\* The fifth request of a fan-out in flight with three others, after one of
\* the first four has finished.
C20_Witness ==
    /\ ppc \in {"submit", "collect"}
    /\ Len(futures) > MaxHttpWorkers
    /\ futures[MaxHttpWorkers + 1].state = "running"
    /\ Cardinality(InFlight) = MaxHttpWorkers
    /\ \E i \in 1..MaxHttpWorkers : futures[i].state \in PageOutcomes

(* --------------------------- claims: the Entity ------------------------ *)
\* An operation that read data (a read, or the read inside a save) on an
\* entity that was constructed without data.
ReadOfBare == last.read /\ hist.ctor = "listing"

\* C4 as stated: in a sequence of data reads and successful saves on an
\* Entity constructed without data, a read issues a GET if and only if it is
\* the first read, or the first read after a successful save.
C4_Original ==
    (ReadOfBare /\ hist.plain) => (last.gets = 1 <=> ~last.readBefore)

\* C4 (amended): in a sequence of data reads and partial-update saves on an
\* Entity constructed without data, a read issues a GET if and only if no GET
\* has succeeded since the construction or the last successful save; every
\* other read returns the cached document and issues no request.
C4_FetchIffNothingFetched ==
    (ReadOfBare /\ ~hist.assigned)
        => /\ last.gets = 1 <=> ~last.fetchedBefore
           /\ last.gets = 0 => last.before # NoDoc
           /\ (last.gets = 0 /\ last.op = "read")
                 => (last.raised = "none" /\ last.doc = last.before)

C4_Witness ==
    /\ ReadOfBare /\ ~hist.assigned
    /\ last.op = "read"
    /\ last.gets = 1
    /\ last.readBefore
    /\ last.raised = "none"

\* C5: after any write attempt on an Entity (a save or the assignment of a
\* document), accepted or rejected, the next data read returns a document
\* obtained from the server, never one built locally.  (Stated for an Entity
\* that holds its Chef.)
C5_ReadAfterWriteFromServer ==
    (last.op = "read" /\ last.raised = "none" /\ last.afterWrite /\ e_chef = "chef")
        => last.origin = "server"

\* C6 as stated: when the PUT of a partial-update save is rejected, save
\* raises InvalidObject with the server's text and the cached data is
\* exactly what it was before the save was attempted.
C6_Original ==
    (last.op = "save" /\ last.puts = 1 /\ ~last.putok)
        => /\ last.raised = "InvalidObject"
           /\ last.text = ServerText
           /\ e_data = last.before

\* C6 (amended): when the PUT of a partial-update save is rejected, save
\* raises InvalidObject with the server's text and the cache holds the
\* document the save read as the current one: what was cached before, or,
\* when nothing was cached, the document the save fetched.  The rejected PUT
\* neither invalidates nor modifies it.
C6_RejectedSaveKeepsCurrent ==
    (last.op = "save" /\ last.puts = 1 /\ ~last.putok)
        => /\ last.raised = "InvalidObject"
           /\ last.text = ServerText
           /\ e_data # NoDoc
           /\ e_data = (IF last.before = NoDoc THEN last.got ELSE last.before)
           /\ last.before = NoDoc <=> last.gets = 1

C6_Witness ==
    /\ last.op = "save" /\ last.puts = 1 /\ ~last.putok
    /\ last.before = NoDoc
    /\ e_data = last.got
    /\ last.body # e_data

\* C25: a partial-update save sends as PUT body a copy of the entity's
\* current document overlaid with the update (the update's value for a key
\* of both, every other current field kept, the pre-save transform of the
\* base kind applied), and modifies neither the cached document nor the
\* caller's update mapping: a cache that is still held after the save holds
\* the current document as it was.
C25_SaveBodyIsOverlaidCopy ==
    last.op = "save"
        => /\ last.updAfter = last.upd
           /\ last.puts = 0 => (e_data = last.before /\ last.raised # "none")
           /\ last.puts = 1 =>
                 /\ last.cur = (IF last.before = NoDoc THEN last.got ELSE last.before)
                 /\ DOMAIN last.body = DOMAIN last.cur \cup DOMAIN last.upd
                 /\ \A k \in DOMAIN last.upd : last.body[k] = last.upd[k]
                 /\ \A k \in DOMAIN last.cur \ DOMAIN last.upd :
                        last.body[k] = last.cur[k]
                 /\ e_data # NoDoc => e_data = last.cur

\* A save whose update replaces one field and whose PUT is rejected: the
\* body differs from the current document, which is still cached unchanged.
C25_Witness ==
    /\ last.op = "save" /\ last.puts = 1 /\ ~last.putok
    /\ "b" \in DOMAIN last.cur
    /\ "a" \in DOMAIN last.upd
    /\ last.body.a = last.upd.a /\ last.body.a # last.cur.a
    /\ last.body.b = last.cur.b
    /\ e_data = last.cur

\* C26: every Entity a manager produces, through the listing and through
\* the search alike, holds the Chef client that produced it, so that its
\* data read, save and delete are sent through that client's session.
C26_EntityHoldsChef ==
    hist.ctor # "none"
        => /\ e_chef = "chef"
           /\ last.raised # "AttributeError"

\* The failing case of C26: an entity built by from_data holds the session,
\* and its save, which found the document in the cache, sends no PUT.
C26_Witness ==
    /\ hist.ctor = "search"
    /\ e_chef = "session"
    /\ last.op = "save"
    /\ last.before # NoDoc
    /\ last.puts = 0
    /\ last.raised = "AttributeError"

\* What holds of the entities of the listing path: they hold the Chef and
\* none of their operations fails for want of a session.
ListedEntityHoldsChef ==
    hist.ctor = "listing"
        => /\ e_chef = "chef"
           /\ last.raised # "AttributeError"

\* C7: Entity.delete issues one DELETE to the entity's URL and returns True
\* if and only if the response is successful; on a non-success response it
\* returns False; it raises nothing.
C7_DeleteReturnsOk ==
    last.op = "delete"
        => /\ last.dels = 1
           /\ last.raised = "none"
           /\ last.ret = (IF last.delok THEN "True" ELSE "False")

\* What delete does on an Entity that holds its Chef (listing path): one
\* DELETE, the response's ok as the result, no exception.
DeleteThroughChef ==
    (last.op = "delete" /\ hist.ctor = "listing")
        => /\ last.dels = 1
           /\ last.raised = "none"
           /\ last.ret = (IF last.delok THEN "True" ELSE "False")

\* The entity of C7's failing case: built by from_data, then deleted.
C7_Witness ==
    /\ last.op = "delete"
    /\ hist.ctor = "search"
    /\ last.raised = "AttributeError"
    /\ last.dels = 0

(* ----------------------- claims: Chef operations ----------------------- *)
\* C8: delete_<kind>_by_name returns True if the deletion succeeded and
\* False if it failed, for every name, also one no listed entity has; it
\* never raises.
C8_DeleteByNameReturnsBool ==
    call.op = "delete_by_name"
        => /\ call.raised = "none"
           /\ call.ret = (IF call.deleted THEN "True" ELSE "False")

\* The failing case of C8: a name the listing does not hold.
C8_Witness ==
    /\ call.op = "delete_by_name"
    /\ call.raised = "AttributeError"
    /\ call.kind = coll.kind
    /\ coll.names # {}
    /\ \A n \in coll.names : Lower(n) # Lower(call.name)

\* C9: every create operation signals a creation the server rejected by
\* raising an exception that carries the server's error text; none reports
\* it by a return value.
C9_RejectedCreateRaises ==
    (call.op = "create" /\ call.rejected)
        => /\ call.raised # "none"
           /\ call.text = ServerText
           /\ call.ret = "none"

\* The failing case of C9: a rejected create_item or create_key.
C9_Witness ==
    /\ call.op = "create"
    /\ call.rejected
    /\ call.kind \in {"databagitem", "clientkey"}
    /\ call.ret = "None"
    /\ call.raised = "none"

\* C10: `x in manager` issues one search with query '<primary match
\* field>:x', a page size of 1 row and a field projection, and is true if
\* and only if that search returns at least one hit.
C10_ContainsOneRowSearch ==
    call.op = "contains"
        => /\ Len(call.reqs) = 1
           /\ call.reqs[1].url = "search"
           /\ call.reqs[1].q = PrimaryQuery("name", call.name)
           /\ call.reqs[1].rows = 1
           /\ call.reqs[1].json
           /\ call.ret = (IF call.hits >= 1 THEN "True" ELSE "False")

\* The failing case of C10: the search that is sent.
C10_Witness ==
    /\ call.op = "contains"
    /\ call.hits = 1
    /\ call.ret = "True"
    /\ call.reqs[1].rows = MAX_ROW_COUNT
    /\ call.reqs[1].method = "get"
    /\ ~call.reqs[1].json

\* C11: filter, and search_nodes through it, called with a non-empty field
\* projection map sends every search request as a POST whose body is that
\* map; called without one it sends the search as a GET.
C11_FilterProjectionPosts ==
    call.op \in {"filter", "search_nodes"}
        => \A i \in 1..Len(call.reqs) :
              /\ call.proj => (call.reqs[i].method = "post" /\ call.reqs[i].json)
              /\ ~call.proj => call.reqs[i].method = "get"

\* The failing case of C11: a partial search of nodes.
C11_Witness ==
    /\ call.op = "search_nodes"
    /\ call.proj
    /\ Len(call.reqs) = 1
    /\ call.reqs[1].method = "get"
    /\ ~call.reqs[1].json

\* C12: one iteration of a direct listing sends exactly one request and
\* yields exactly one Entity per entry of the server's name-to-URL mapping,
\* whatever the names are, each with the entry's name, the entry's URL (the
\* 'url' member of a mapping value) and no cached data; no request is sent
\* for an entity before its data is read.
C12_ListingOnePerEntry ==
    (call.op = "listing" /\ call.respok)
        => /\ call.reqs = <<Plain("get", call.kind)>>
           /\ call.raised = "none"
           /\ call.ents = {[name |-> n, url |-> [shape |-> "str", url |-> UrlOf(call.kind, n)],
                            data |-> NoDoc, chef |-> "chef"] : n \in call.mapping}

\* The failing case of C12: a collection with an object named 'rows'.
C12_Witness ==
    /\ call.op = "listing" /\ call.respok
    /\ call.mapping = {"web", "rows"}
    /\ call.ents = {}
    /\ call.raised = "ValueError"

\* C24: for each search hit, the entity built from it has the row's own url
\* when the row has one, and only otherwise a URL built from the record's
\* name and the URL template of the kind.
C24_HitUrlFromRow ==
    call.op = "search"
        => \A i \in 1..Len(call.rows) :
              LET row == call.rows[i]
                  rec == RowRecord(row)
              IN IF "url" \in DOMAIN row /\ row.url # <<>>
                 THEN call.found[i].url = row.url
                 ELSE /\ "name" \in DOMAIN rec
                      /\ call.found[i].url = GenerateEntityUrl(call.kind, rec.name)

\* The failing case of C24: a row {url, data} whose data has no name is
\* built into an entity without name, with a URL that ends in None.
C24_Witness ==
    /\ call.op = "search"
    /\ call.kind = "node"
    /\ call.rows = <<[url |-> <<"org", "nodes", "web">>, data |-> [ip |-> "10.0.0.1"]]>>
    /\ call.found[1].url = <<"org", "nodes", "None">>
    /\ call.found[1].name = "None"

\* What the search path does: the url and the name are those of the record
\* handed to from_data, which is the row's data when the row has one.
HitUrlFromRecord ==
    call.op = "search"
        => \A i \in 1..Len(call.rows) :
              LET rec == RowRecord(call.rows[i])
              IN IF "url" \in DOMAIN rec /\ rec.url # <<>>
                 THEN /\ call.found[i].url = rec.url
                      /\ call.found[i].name = LastSegment(rec.url)
                 ELSE IF "name" \in DOMAIN rec
                 THEN /\ call.found[i].url = GenerateEntityUrl(call.kind, rec.name)
                      /\ call.found[i].name = rec.name
                 ELSE call.found[i].url = GenerateEntityUrl(call.kind, PyNone)

\* C19: a search against an index that is not among the search indexes the
\* server listed at construction raises InvalidSearchIndex, and no search
\* request is sent.
C19_InvalidIndexRaises ==
    (call.op \in {"filter", "search_nodes", "contains"} /\ call.kind \notin search_indexes)
        => /\ call.raised = "InvalidSearchIndex"
           /\ call.reqs = <<>>

\* The failing case of C19: a filter on the cookbooks manager.
C19_Witness ==
    /\ call.op = "filter"
    /\ call.kind = "cookbook"
    /\ call.kind \notin search_indexes
    /\ call.raised = "none"
    /\ Len(call.reqs) = 1
    /\ call.reqs[1].url = "search"

C15_FreshNonces ==
    /\ \A i \in 1..Len(c_log) : \A j \in 1..Len(c_log) :
          (i < j /\ c_log[i].key = c_log[j].key) => c_log[i].iv # c_log[j].iv
    /\ (/\ c_prev.done /\ c_enc.done
        /\ c_prev.raised = "none" /\ c_enc.raised = "none"
        /\ c_prev.secret = c_enc.secret
        /\ c_prev.data = c_enc.data)
          => \A f \in 1..Len(c_enc.out.fields) :
                f <= Len(c_prev.out.fields)
                   => /\ c_enc.out.fields[f].v.m.iv # c_prev.out.fields[f].v.m.iv
                      /\ c_enc.out.fields[f].v.m.encrypted_data
                            # c_prev.out.fields[f].v.m.encrypted_data

\* The same one-field item encrypted twice with the same secret.
C15_Witness ==
    /\ c_prev.done /\ c_enc.done
    /\ c_prev.secret = c_enc.secret
    /\ c_prev.data = c_enc.data
    /\ Len(c_enc.out.fields) = 1
    /\ Len(c_prev.out.fields) = 1
    /\ Len(c_log) = 2
    /\ c_log[1].key = c_log[2].key

\* C17: _decrypt_item and _encrypt_item never raise: on any cryptographic or
\* structural failure they return the partial item built so far, which
\* always contains the id.
C17_CipherNeverRaises ==
    c_last.op \in {"encrypt", "decrypt"}
        => /\ c_last.raised = "none"
           /\ c_last.out.hasid

\* What the two handlers do cover: a failure that raises ValueError or
\* KeyError inside the loop (wrong secret, tag mismatch, missing member, no
\* base64, no JSON) is logged and the fields before it are returned with
\* the id.
CaughtFailuresReturnPartial ==
    (c_last.op = "decrypt" /\ c_last.logged)
        => /\ c_last.raised = "none"
           /\ c_last.out.hasid /\ c_last.out.id = c_last.data.id
           /\ Len(c_last.out.fields) = Len(c_last.tried) - 1
           /\ \A i \in 1..Len(c_last.out.fields) : c_last.out.fields[i].k = c_last.tried[i]

\* The failing case of C17: a stored item whose second field is a plain
\* string.
C17_Witness ==
    /\ c_last.op = "decrypt"
    /\ c_last.raised = "TypeError"
    /\ c_last.data.hasid
    /\ c_last.data.fields[2].v = JStr("plain")
    /\ c_last.tried = <<"a", "b">>

(* --------------- claims: DataBagItem and Cookbook entities ------------- *)
\* The field value v is a version-3 envelope.
IsV3Envelope(v) == v.t = "dict" /\ "version" \in DOMAIN v.m /\ v.m.version = 3

\* C23: _is_encrypted reports an item as encrypted exactly when every
\* field other than the id is a mapping whose version is 3, and raises no
\* error for any plaintext field value, whatever the id is.
C23_EncryptedIffEveryFieldV3 ==
    c_last.op = "is_encrypted"
        => /\ c_last.raised = "none"
           /\ c_last.encrypted
                  = \A i \in 1..Len(c_last.data.fields) :
                        IsV3Envelope(c_last.data.fields[i].v)

\* The failing case of C23: a plaintext item whose one field is a number.
C23_Witness ==
    /\ c_last.op = "is_encrypted"
    /\ c_last.data = Item("x", <<Field("a", JInt(1))>>)
    /\ c_last.raised = "TypeError"

\* What _is_encrypted does: it fails on a member, the id included, that is
\* no container or that has 'version' in it without being a mapping, and
\* otherwise reports whether some member is a mapping with version 3.
IsEncryptedAnyField ==
    c_last.op = "is_encrypted"
        => /\ c_last.raised \in {"none", "TypeError"}
           /\ c_last.raised = "none" =>
                  c_last.encrypted
                      = \E i \in 1..Len(c_last.data.fields) :
                            IsV3Envelope(c_last.data.fields[i].v)

\* An item with one version-3 field and one plaintext string is reported
\* as encrypted.
MixedItemEncrypted ==
    /\ c_last.op = "is_encrypted"
    /\ c_last.raised = "none"
    /\ c_last.encrypted
    /\ \E i \in 1..Len(c_last.data.fields) : c_last.data.fields[i].v = JStr("plain")

\* A DataBagItem with the secret its stored record, all version 3, was
\* encrypted with.
ItemWithItsSecret ==
    /\ k_kind = "databagitem"
    /\ k_secret # "none"
    /\ k_last.srv.by = k_secret
    /\ k_last.srv.legacy = {}

\* C13: for a DataBagItem that has a secret and whose stored record is a
\* version-3 encrypted item, every read of data returns each non-identifier
\* field decrypted to its original value, id unchanged, and every save sends
\* each non-identifier field as a version-3 envelope, never as plaintext.
C13_ItemTransparentCrypto ==
    /\ (ItemWithItsSecret /\ k_last.op = "read" /\ k_last.getok)
          => /\ k_last.raised = "none"
             /\ k_last.ret = k_last.srv.plain
    /\ (ItemWithItsSecret /\ k_last.op = "save" /\ k_last.getok)
          => /\ k_last.puts = 1
             /\ k_last.body.id = k_last.srv.plain.id
             /\ \A i \in 1..Len(k_last.body.fields) : IsV3Envelope(k_last.body.fields[i].v)

\* The failing case of C13: the first read of such an item.
C13_Witness ==
    /\ ItemWithItsSecret
    /\ k_last.op = "read" /\ k_last.getok
    /\ k_last.gets = 1
    /\ k_last.raised = "TypeError"
    /\ k_data = k_last.srv.doc

\* C16: a field of a data-bag item whose envelope has version 1 or 2 is
\* never passed to decryption, whatever the secret and the other fields, and
\* the data returned to the caller holds that field's raw envelope unchanged.
C16_LegacyFieldLeftRaw ==
    (/\ k_kind = "databagitem" /\ k_last.op = "read" /\ k_last.getok
     /\ k_last.srv.legacy # {})
        => /\ k_last.raised = "none"
           /\ \A i \in k_last.srv.legacy :
                 /\ \A j \in 1..Len(k_last.tried) :
                       k_last.tried[j] # k_last.srv.doc.fields[i].k
                 /\ \E j \in 1..Len(k_last.ret.fields) :
                       k_last.ret.fields[j] = k_last.srv.doc.fields[i]

\* The failing case of C16: a read of an item with a version-1 field.
C16_Witness ==
    /\ k_kind = "databagitem" /\ k_last.op = "read" /\ k_last.getok
    /\ k_last.srv.legacy = {1}
    /\ k_last.srv.doc.fields[1].v.m.version = 1
    /\ k_last.raised = "TypeError"
    /\ k_last.tried = <<>>

\* C18: reading the data of a Cookbook fetches its URL once and returns the
\* payload found under the cookbook's own name in the server's response, not
\* the enclosing mapping.
C18_CookbookPayload ==
    (k_kind = "cookbook" /\ k_last.op = "read" /\ k_last.getok)
        => /\ k_last.raised = "none"
           /\ k_last.gets = (IF k_last.before = NoDoc THEN 1 ELSE 0)
           /\ k_last.ret = k_last.srv.doc[Name]

\* The failing case of C18: the first read of a cookbook.
C18_Witness ==
    /\ k_kind = "cookbook" /\ k_last.op = "read" /\ k_last.getok
    /\ k_last.gets = 1
    /\ k_last.raised = "TypeError"
    /\ k_data = k_last.srv.doc

====
